---- MODULE Spec2Model ----
(***************************************************************************)
(* Model of the `users` application: the User and Profile resources, the   *)
(* username assigner and profile auto-creation signal receivers, the       *)
(* UserSerializer validation / create / update methods, and the two        *)
(* object-level permission classes.                                        *)
(*                                                                         *)
(* Text is modelled as sequences of one-character strings so that          *)
(* formatting (f-strings, str(counter)) and .lower() are computed.         *)
(* A Python dict is a function whose DOMAIN is the set of keys present.    *)
(* Python's None / an optional value is the empty sequence, a present      *)
(* value v is <<v>>.                                                       *)
(***************************************************************************)
EXTENDS Integers, Sequences, FiniteSets, TLC

VARIABLES db, resp, workers

vars == <<db, resp, workers>>

(***************************************************************************)
(* Requesters and optional values                                          *)
(***************************************************************************)
\* request.user of an unauthenticated request (AnonymousUser)
Anonymous == 0

None == <<>>
Some(v) == <<v>>

(***************************************************************************)
(* Text                                                                    *)
(***************************************************************************)
UpperCase == <<"A", "B", "C", "D", "E", "F", "G", "H", "I", "J", "K", "L", "M",
               "N", "O", "P", "Q", "R", "S", "T", "U", "V", "W", "X", "Y", "Z">>
LowerCase == <<"a", "b", "c", "d", "e", "f", "g", "h", "i", "j", "k", "l", "m",
               "n", "o", "p", "q", "r", "s", "t", "u", "v", "w", "x", "y", "z">>
Digits == <<"0", "1", "2", "3", "4", "5", "6", "7", "8", "9">>

\* str.lower() on one character
LowerChar(c) ==
    IF \E i \in 1..Len(UpperCase) : UpperCase[i] = c
    THEN LowerCase[CHOOSE i \in 1..Len(UpperCase) : UpperCase[i] = c]
    ELSE c

\* str.lower()
Lower(s) == [i \in 1..Len(s) |-> LowerChar(s[i])]

\* str(counter) as interpolated by the f-string, counter >= 0
RECURSIVE Str(_)
Str(n) == IF n < 10 THEN <<Digits[n + 1]>>
          ELSE Str(n \div 10) \o <<Digits[(n % 10) + 1]>>

\* dict.get(key, None)
Get(data, key) == IF key \in DOMAIN data THEN Some(data[key]) ELSE None

\* the dict without the given keys (dict.pop of each)
Without(data, keys) == [k \in (DOMAIN data) \ keys |-> data[k]]

\* the dicts with at most the one key, its value drawn from values
Opt(key, values) == {<<>>} \cup {key :> v : v \in values}

(***************************************************************************)
(* Credentials (django.contrib.auth hashers as used by set_password /      *)
(* check_password): a salted one-way hash.  The digest of (salt, raw) is   *)
(* the pair itself, which is injective as the hasher is assumed to be.     *)
(***************************************************************************)
Salts == {"s1", "s2"}

\* the password column of a row created without a password
NoCredential == [salt |-> "", digest |-> <<>>]

make_password(raw, salt) == [salt |-> salt, digest |-> <<salt, raw>>]

check_password(raw, encoded) ==
    /\ encoded.salt # ""
    /\ make_password(raw, encoded.salt) = encoded

(***************************************************************************)
(* The Identity Store: the auth User table and the Profile table           *)
(* db.users    : id -> row      db.user_seq    : next auto-increment id    *)
(* db.profiles : id -> row      db.profile_seq : next auto-increment id    *)
(***************************************************************************)
\* Profile.image of a row written without an image (null)
NoImage == <<>>

\* columns of the User model a client can supply through the serializer
ModelFields == {"email", "first_name", "last_name"}

\* User(**fields): an unsaved instance (id 0 is pk None), model defaults elsewhere
NewUser(fields) ==
    [id         |-> 0,
     username   |-> <<>>,
     first_name |-> IF "first_name" \in DOMAIN fields THEN fields["first_name"] ELSE <<>>,
     last_name  |-> IF "last_name" \in DOMAIN fields THEN fields["last_name"] ELSE <<>>,
     email      |-> IF "email" \in DOMAIN fields THEN fields["email"] ELSE "",
     password   |-> NoCredential]

\* the row an instance is written as
RowOf(instance) ==
    [username   |-> instance.username,
     first_name |-> instance.first_name,
     last_name  |-> instance.last_name,
     email      |-> instance.email,
     password   |-> instance.password]

\* the instance a row is loaded as (queryset get)
Load(database, id) ==
    [id         |-> id,
     username   |-> database.users[id].username,
     first_name |-> database.users[id].first_name,
     last_name  |-> database.users[id].last_name,
     email      |-> database.users[id].email,
     password   |-> database.users[id].password]

\* User.objects.filter(username=username).exists()
username_exists(database, username) ==
    \E u \in DOMAIN database.users : database.users[u].username = username

\* f'{instance.first_name}_{instance.last_name}'.lower()
username_base(instance) ==
    Lower(instance.first_name \o <<"_">> \o instance.last_name)

\* f'{instance.first_name}_{instance.last_name}_{counter}'.lower()
username_numbered(instance, counter) ==
    Lower(instance.first_name \o <<"_">> \o instance.last_name \o <<"_">> \o Str(counter))

\* the while loop of set_username, entered with counter = 1
RECURSIVE set_username_loop(_, _, _, _)
set_username_loop(instance, username, counter, database) ==
    IF username_exists(database, username)
    THEN set_username_loop(instance, username_numbered(instance, counter),
                           counter + 1, database)
    ELSE username

\* set_username with the counter incremented before the first numbered name
set_username_counter_ahead(instance, database) ==
    IF instance.username = <<>>
    THEN [instance EXCEPT
            !.username = set_username_loop(instance, username_base(instance), 2, database)]
    ELSE instance

\* pre_save receiver
set_username(instance, database) ==
    IF instance.username = <<>>
    THEN [instance EXCEPT
            !.username = set_username_loop(instance, username_base(instance), 1, database)]
    ELSE instance

\* a username column without the UNIQUE index
username_not_unique(database, id, username) == FALSE

\* the UNIQUE index on username of django.contrib.auth.models.User, the model
\* imported and written to (username is declared unique=True there): another
\* row already holds the name, and the INSERT or UPDATE raises IntegrityError
username_taken(database, id, username) ==
    \E u \in (DOMAIN database.users) \ {id} : database.users[u].username = username

\* the UNIQUE index of the OneToOneField Profile.user
profile_taken(database, user_id) ==
    \E p \in DOMAIN database.profiles : database.profiles[p].user = user_id

\* Profile.objects.create(user=instance)
profile_create(database, user_id) ==
    IF profile_taken(database, user_id)
    THEN [db |-> database, error |-> "IntegrityError"]
    ELSE [db |-> [database EXCEPT
                    !.profiles = (database.profile_seq :> [user |-> user_id, image |-> NoImage])
                                 @@ database.profiles,
                    !.profile_seq = database.profile_seq + 1],
          error |-> ""]

\* the receiver is never connected to post_save
create_user_profile_unconnected(database, instance, created) ==
    [db |-> database, error |-> ""]

\* post_save receiver
create_user_profile(database, instance, created) ==
    IF created
    THEN profile_create(database, instance.id)
    ELSE [db |-> database, error |-> ""]

\* the table write of Model.save(): UPDATE the row with this pk, INSERT when
\* the pk is None or no row has it
save_table(database, instance) ==
    IF instance.id # 0 /\ instance.id \in DOMAIN database.users
    THEN IF username_taken(database, instance.id, instance.username)
         THEN [db |-> database, instance |-> instance, created |-> FALSE,
               error |-> "IntegrityError"]
         ELSE [db |-> [database EXCEPT !.users[instance.id] = RowOf(instance)],
               instance |-> instance, created |-> FALSE, error |-> ""]
    ELSE LET id == IF instance.id # 0 THEN instance.id ELSE database.user_seq
             inst == [instance EXCEPT !.id = id]
         IN  IF username_taken(database, id, instance.username)
             THEN [db |-> database, instance |-> instance, created |-> TRUE,
                   error |-> "IntegrityError"]
             ELSE [db |-> [database EXCEPT
                             !.users = (id :> RowOf(inst)) @@ database.users,
                             !.user_seq = IF id >= database.user_seq
                                          THEN id + 1 ELSE database.user_seq],
                   instance |-> inst, created |-> TRUE, error |-> ""]

\* Model.save() on a User: pre_save, the table write, post_save
save(database, instance) ==
    LET pre == set_username(instance, database)
        wr  == save_table(database, pre)
    IN  IF wr.error # ""
        THEN [db |-> wr.db, instance |-> wr.instance, error |-> wr.error]
        ELSE LET post == create_user_profile(wr.db, wr.instance, wr.created)
             IN  [db |-> post.db, instance |-> wr.instance, error |-> post.error]

\* User.delete(): the row and, by on_delete=CASCADE, its Profile rows
delete(database, id) ==
    [database EXCEPT
        !.users = [u \in (DOMAIN database.users) \ {id} |-> database.users[u]],
        !.profiles = [p \in {q \in DOMAIN database.profiles : database.profiles[q].user # id}
                        |-> database.profiles[p]]]

\* request.user.profile: the ids of the Profile rows of a user (one, or none)
profile_of(database, user_id) ==
    {p \in DOMAIN database.profiles : database.profiles[p].user = user_id}

(***************************************************************************)
(* UserSerializer                                                          *)
(***************************************************************************)
ProvidePassword == "Please provide a password."
ProvideOldPassword == "Please provide the old password."
OldPasswordIncorrect == "Old password is incorrect."
MayNotBeBlank == "This field may not be blank."

\* a ValidationError {"info": message}
Info(message) == {<<"info", message>>}

\* field validation of the two declared CharFields (allow_blank is left at its
\* default, False): the keys rejected with "This field may not be blank."
blank_fields(data) ==
    {k \in {"password", "old_password"} \cap DOMAIN data : data[k] = ""}

\* validate testing the password for falsiness ("not password") on POST
validate_falsy_password(request_method, data) ==
    LET password == Get(data, "password")
    IN  IF request_method = "POST"
        THEN IF password = None \/ password = Some("")
             THEN [errors |-> Info(ProvidePassword), returned |-> <<>>]
             ELSE [errors |-> {}, returned |-> data]
        ELSE IF request_method \in {"PUT", "PATCH"}
             THEN LET old_password == Get(data, "old_password")
                  IN  IF password # None /\ old_password = None
                      THEN [errors |-> Info(ProvideOldPassword), returned |-> <<>>]
                      ELSE [errors |-> {}, returned |-> data]
             ELSE [errors |-> {}, returned |-> data]

\* validate with PATCH left out of the list of updating methods
validate_put_only(request_method, data) ==
    LET password == Get(data, "password")
    IN  IF request_method = "POST"
        THEN IF password = None
             THEN [errors |-> Info(ProvidePassword), returned |-> <<>>]
             ELSE [errors |-> {}, returned |-> data]
        ELSE IF request_method \in {"PUT"}
             THEN LET old_password == Get(data, "old_password")
                  IN  IF password # None /\ old_password = None
                      THEN [errors |-> Info(ProvideOldPassword), returned |-> <<>>]
                      ELSE [errors |-> {}, returned |-> data]
             ELSE [errors |-> {}, returned |-> data]

\* UserSerializer.validate: errors is the ValidationError raised ({} when it
\* returns), returned the dict it returns
validate(request_method, data) ==
    LET password == Get(data, "password")
    IN  IF request_method = "POST"
        THEN IF password = None
             THEN [errors |-> Info(ProvidePassword), returned |-> <<>>]
             ELSE [errors |-> {}, returned |-> data]
        ELSE IF request_method \in {"PUT", "PATCH"}
             THEN LET old_password == Get(data, "old_password")
                  IN  IF password # None /\ old_password = None
                      THEN [errors |-> Info(ProvideOldPassword), returned |-> <<>>]
                      ELSE [errors |-> {}, returned |-> data]
             ELSE [errors |-> {}, returned |-> data]

\* serializer.is_valid(): field validation, then validate() when no field
\* failed; returned is serializer.validated_data
is_valid(request_method, data) ==
    IF blank_fields(data) # {}
    THEN [errors |-> {<<k, MayNotBeBlank>> : k \in blank_fields(data)}, returned |-> <<>>]
    ELSE validate(request_method, data)

\* UserSerializer.create; salt is the salt set_password draws
create(database, validated_data, salt) ==
    LET password == validated_data["password"]
        fields   == Without(validated_data, {"password"})
    IN  IF ~(DOMAIN fields \subseteq ModelFields)
        THEN [db |-> database, instance |-> NewUser(<<>>), error |-> "TypeError"]
        ELSE LET made == save(database, NewUser(fields))
             IN  IF made.error # ""
                 THEN made
                 ELSE save(made.db,
                           [made.instance EXCEPT !.password = make_password(password, salt)])

\* ModelSerializer.update: setattr for every remaining key, then instance.save()
generic_update(database, instance, validated_data) ==
    save(database,
         [instance EXCEPT
            !.email      = IF "email" \in DOMAIN validated_data
                           THEN validated_data["email"] ELSE @,
            !.first_name = IF "first_name" \in DOMAIN validated_data
                           THEN validated_data["first_name"] ELSE @,
            !.last_name  = IF "last_name" \in DOMAIN validated_data
                           THEN validated_data["last_name"] ELSE @])

\* the password change calling set_password with old_password
change_password_sets_old(database, instance, validated_data, salt) ==
    IF "password" \in DOMAIN validated_data
    THEN IF "old_password" \notin DOMAIN validated_data
         THEN [db |-> database, instance |-> instance, error |-> "'old_password'"]
         ELSE IF check_password(validated_data["old_password"], instance.password)
              THEN save(database,
                        [instance EXCEPT
                           !.password = make_password(validated_data["old_password"], salt)])
              ELSE [db |-> database, instance |-> instance, error |-> OldPasswordIncorrect]
    ELSE [db |-> database, instance |-> instance, error |-> ""]

\* the try block of UserSerializer.update: the password change
change_password(database, instance, validated_data, salt) ==
    IF "password" \in DOMAIN validated_data
    THEN IF "old_password" \notin DOMAIN validated_data
         THEN [db |-> database, instance |-> instance, error |-> "'old_password'"]
         ELSE IF check_password(validated_data["old_password"], instance.password)
              THEN save(database,
                        [instance EXCEPT
                           !.password = make_password(validated_data["password"], salt)])
              ELSE [db |-> database, instance |-> instance, error |-> OldPasswordIncorrect]
    ELSE [db |-> database, instance |-> instance, error |-> ""]

\* update applying the other fields before the password is verified
update_fields_first(database, instance, validated_data, salt) ==
    LET rest == Without(validated_data, {"password", "old_password"})
        up   == generic_update(database, instance, rest)
        pw   == change_password(up.db, up.instance, validated_data, salt)
    IN  IF pw.error # ""
        THEN [db |-> pw.db, instance |-> pw.instance, errors |-> Info(pw.error), error |-> ""]
        ELSE [db |-> pw.db, instance |-> pw.instance, errors |-> {}, error |-> up.error]

\* UserSerializer.update: errors is the ValidationError raised, {} when it returns
update(database, instance, validated_data, salt) ==
    LET pw == change_password(database, instance, validated_data, salt)
    IN  IF pw.error # ""
        THEN [db |-> pw.db, instance |-> pw.instance, errors |-> Info(pw.error), error |-> ""]
        ELSE LET rest == IF "password" \in DOMAIN validated_data
                         THEN Without(validated_data, {"password", "old_password"})
                         ELSE validated_data
                 up   == generic_update(pw.db, pw.instance, rest)
             IN  [db |-> up.db, instance |-> up.instance, errors |-> {}, error |-> up.error]

(***************************************************************************)
(* Permissions                                                             *)
(***************************************************************************)
Methods == {"GET", "HEAD", "OPTIONS", "POST", "PUT", "PATCH", "DELETE"}

\* rest_framework.permissions.SAFE_METHODS
SAFE_METHODS == {"GET", "HEAD", "OPTIONS"}

\* the User policy letting every authenticated requester through
IsUserAuthenticatedOrReadOnly(method, user, obj) ==
    IF method \in SAFE_METHODS
    THEN TRUE
    ELSE user # Anonymous

\* IsUserOwnerOrGetAndPostOnly.has_object_permission; user is request.user
\* (Anonymous or the id of an authenticated User), obj the id of a User
IsUserOwnerOrGetAndPostOnly(method, user, obj) ==
    IF method \in SAFE_METHODS
    THEN TRUE
    ELSE IF user # Anonymous
         THEN user = obj
         ELSE FALSE

\* the Profile policy comparing request.user itself with the Profile: a User
\* and a Profile are instances of different models and never equal
IsProfileOwnerComparingUser(method, user, obj, database) ==
    IF method \in SAFE_METHODS
    THEN [raised |-> FALSE, allowed |-> TRUE]
    ELSE [raised |-> FALSE, allowed |-> FALSE]

\* IsProfileOwnerOrReadOnly.has_object_permission; obj is the id of a Profile.
\* raised: request.user.profile found no Profile row (RelatedObjectDoesNotExist)
IsProfileOwnerOrReadOnly(method, user, obj, database) ==
    IF method \in SAFE_METHODS
    THEN [raised |-> FALSE, allowed |-> TRUE]
    ELSE IF user # Anonymous
         THEN IF profile_of(database, user) = {}
              THEN [raised |-> TRUE, allowed |-> FALSE]
              ELSE [raised |-> FALSE, allowed |-> obj \in profile_of(database, user)]
         ELSE [raised |-> FALSE, allowed |-> FALSE]

(***************************************************************************)
(* Profile image path                                                      *)
(***************************************************************************)
\* GenerateProfileImagePath.__call__; filename is given as its parts between
\* the dots, so filename.split('.')[-1] is the last part
user_profile_image_path(user_id, filename) ==
    LET ext == filename[Len(filename)]
    IN  <<"media/accounts/", user_id, "/images/", "profile_image.", ext>>

(***************************************************************************)
(* State                                                                   *)
(* resp is the response of the request handled last, with the request it   *)
(* answers; workers holds the requests being handled concurrently.         *)
(***************************************************************************)
EmptyDb == [users |-> <<>>, profiles |-> <<>>, user_seq |-> 1, profile_seq |-> 1]

Response(op, method, user, target, data, status, errors) ==
    [op |-> op, method |-> method, user |-> user, target |-> target,
     data |-> data, status |-> status, errors |-> errors, returned |-> <<>>]

Workers == {1, 2}

Idle == [pc |-> "idle"]

Init ==
    /\ db = EmptyDb
    /\ resp = Response("none", "", Anonymous, 0, <<>>, 0, {})
    /\ workers = [w \in Workers |-> Idle]

\* request.user: AnonymousUser or an existing User
Requesters == {Anonymous} \cup DOMAIN db.users

(***************************************************************************)
(* Requests handled one at a time (UserViewSet, ProfileViewSet)            *)
(***************************************************************************)
\* POST /users/ : CreateModelMixin.create with UserSerializer
CreateUser(user, data, salt) ==
    /\ LET valid == is_valid("POST", data)
       IN  IF valid.errors # {}
           THEN /\ resp' = Response("create", "POST", user, 0, data, 400, valid.errors)
                /\ db' = db
           ELSE LET made == create(db, valid.returned, salt)
                IN  /\ db' = made.db
                    /\ resp' = IF made.error # ""
                               THEN Response("create", "POST", user, made.instance.id, data,
                                             500, {<<"exception", made.error>>})
                               ELSE Response("create", "POST", user, made.instance.id, data,
                                             201, {})
    /\ UNCHANGED workers

\* PUT, PATCH /users/{target}/ : UpdateModelMixin.update with UserSerializer
UpdateUser(user, target, method, data, salt) ==
    /\ method \in {"PUT", "PATCH"}
    /\ IF target \notin DOMAIN db.users
       THEN /\ resp' = Response("update", method, user, target, data, 404, {})
            /\ db' = db
       ELSE IF ~IsUserOwnerOrGetAndPostOnly(method, user, target)
       THEN /\ resp' = Response("update", method, user, target, data, 403, {})
            /\ db' = db
       ELSE LET valid == is_valid(method, data)
            IN  IF valid.errors # {}
                THEN /\ resp' = Response("update", method, user, target, data, 400,
                                         valid.errors)
                     /\ db' = db
                ELSE LET done == update(db, Load(db, target), valid.returned, salt)
                     IN  /\ db' = done.db
                         /\ resp' = IF done.errors # {}
                                    THEN Response("update", method, user, target, data,
                                                  400, done.errors)
                                    ELSE IF done.error # ""
                                    THEN Response("update", method, user, target, data,
                                                  500, {<<"exception", done.error>>})
                                    ELSE Response("update", method, user, target, data,
                                                  200, {})
    /\ UNCHANGED workers

\* DELETE /users/{target}/ : DestroyModelMixin.destroy
DestroyUser(user, target) ==
    /\ IF target \notin DOMAIN db.users
       THEN /\ resp' = Response("destroy", "DELETE", user, target, <<>>, 404, {})
            /\ db' = db
       ELSE IF ~IsUserOwnerOrGetAndPostOnly("DELETE", user, target)
       THEN /\ resp' = Response("destroy", "DELETE", user, target, <<>>, 403, {})
            /\ db' = db
       ELSE /\ resp' = Response("destroy", "DELETE", user, target, <<>>, 204, {})
            /\ db' = delete(db, target)
    /\ UNCHANGED workers

\* PUT, PATCH /profiles/{target}/ : UpdateModelMixin.update with ProfileSerializer
UpdateProfile(user, target, method, data) ==
    /\ method \in {"PUT", "PATCH"}
    /\ IF target \notin DOMAIN db.profiles
       THEN /\ resp' = Response("profile_update", method, user, target, data, 404, {})
            /\ db' = db
       ELSE LET perm == IsProfileOwnerOrReadOnly(method, user, target, db)
            IN  IF perm.raised
                THEN /\ resp' = Response("profile_update", method, user, target, data, 500,
                                         {<<"exception", "RelatedObjectDoesNotExist">>})
                     /\ db' = db
                ELSE IF ~perm.allowed
                THEN /\ resp' = Response("profile_update", method, user, target, data, 403, {})
                     /\ db' = db
                ELSE /\ resp' = Response("profile_update", method, user, target, data, 200, {})
                     /\ db' = IF "image" \in DOMAIN data
                              THEN [db EXCEPT !.profiles[target].image =
                                      user_profile_image_path(db.profiles[target].user,
                                                              data["image"])]
                              ELSE db
    /\ UNCHANGED workers

\* has_object_permission of the User policy applied to a request and a User
CheckUserPermission(method, user, obj) ==
    /\ obj \in DOMAIN db.users
    /\ resp' = Response("user_permission", method, user, obj, <<>>,
                        IF IsUserOwnerOrGetAndPostOnly(method, user, obj) THEN 200 ELSE 403,
                        {})
    /\ UNCHANGED <<db, workers>>

\* has_object_permission of the Profile policy applied to a request and a Profile
CheckProfilePermission(method, user, obj) ==
    /\ obj \in DOMAIN db.profiles
    /\ LET perm == IsProfileOwnerOrReadOnly(method, user, obj, db)
       IN  resp' = Response("profile_permission", method, user, obj, <<>>,
                            IF perm.raised THEN 500 ELSE IF perm.allowed THEN 200 ELSE 403,
                            {})
    /\ UNCHANGED <<db, workers>>

\* serializer.validate(data) under a request of the given method
Validate(method, data) ==
    /\ resp' = LET out == validate(method, data)
               IN  [Response("validate", method, Anonymous, 0, data,
                             IF out.errors = {} THEN 200 ELSE 400, out.errors)
                        EXCEPT !.returned = out.returned]
    /\ UNCHANGED <<db, workers>>

\* serializer.is_valid() on the request's data
IsValid(method, data) ==
    /\ resp' = LET out == is_valid(method, data)
               IN  [Response("is_valid", method, Anonymous, 0, data,
                             IF out.errors = {} THEN 200 ELSE 400, out.errors)
                        EXCEPT !.returned = out.returned]
    /\ UNCHANGED <<db, workers>>

\* primary keys handed out so far, and the next one
KnownIds == 1..db.user_seq

\* the dicts made of one dict of a and one of b (their keys are disjoint)
Merge(a, b) == {x @@ y : x \in a, y \in b}

(***************************************************************************)
(* Spec: accounts and profiles, requests handled one at a time, each       *)
(* handler running to completion.                                          *)
(***************************************************************************)
\* number of User rows ever inserted
MaxUsers == 2

Passwords == {"p0", "p1"}

AccountCreateInputs == Merge(Opt("password", {"p0"}), Opt("old_password", {"p0"}))

AccountUpdateInputs == Merge(Opt("password", {"p1"}), Opt("old_password", {"p0"}))

ProfileInputs == Opt("image", {<<"me", "png">>})

AccountCreate ==
    /\ db.user_seq <= MaxUsers
    /\ \E data \in AccountCreateInputs : CreateUser(Anonymous, data, "s1")

AccountUpdate ==
    \E user \in Requesters, target \in KnownIds, method \in {"PUT", "PATCH"},
       data \in AccountUpdateInputs :
        UpdateUser(user, target, method, data, "s1")

AccountDestroy == \E user \in Requesters, target \in KnownIds : DestroyUser(user, target)

AccountUpdateProfile ==
    \E user \in Requesters, target \in KnownIds, method \in {"PUT", "PATCH"},
       data \in ProfileInputs :
        UpdateProfile(user, target, method, data)

Next == AccountCreate \/ AccountUpdate \/ AccountDestroy \/ AccountUpdateProfile

Spec == Init /\ [][Next]_vars

(***************************************************************************)
(* SpecPolicy: the two object-level policies applied to every method,      *)
(* requester and existing object.                                          *)
(***************************************************************************)
PolicyUsers == 3

PolicyCreate ==
    /\ db.user_seq <= PolicyUsers
    /\ CreateUser(Anonymous, "password" :> "p0", "s1")

PolicyDestroy == \E user \in DOMAIN db.users : DestroyUser(user, user)

PolicyCheckUser ==
    \E method \in Methods, user \in Requesters, obj \in DOMAIN db.users :
        CheckUserPermission(method, user, obj)

PolicyCheckProfile ==
    \E method \in Methods, user \in Requesters, obj \in DOMAIN db.profiles :
        CheckProfilePermission(method, user, obj)

NextPolicy == PolicyCreate \/ PolicyDestroy \/ PolicyCheckUser \/ PolicyCheckProfile

SpecPolicy == Init /\ [][NextPolicy]_vars

(***************************************************************************)
(* SpecValidate: validate() and is_valid() applied to every method and     *)
(* every combination of the password fields.                               *)
(***************************************************************************)
ValidateInputs ==
    Merge(Opt("email", {"e1"}),
    Merge(Opt("password", {"", "x"}),
          Opt("old_password", {"", "y"})))

ValidateCall == \E method \in Methods, data \in ValidateInputs : Validate(method, data)

ValidateRequest == \E method \in Methods, data \in ValidateInputs : IsValid(method, data)

NextValidate == ValidateCall \/ ValidateRequest

SpecValidate == Init /\ [][NextValidate]_vars

(***************************************************************************)
(* SpecNames: Users created from first and last names, and deleted.        *)
(***************************************************************************)
NameUsers == 4

NameInputs ==
    Merge({"password" :> "p0"},
    Merge(Opt("first_name", {<<"a">>, <<"A">>}),
          Opt("last_name", {<<"b">>, <<"b", "_", "1">>})))

NameCreate ==
    /\ db.user_seq <= NameUsers
    /\ \E data \in NameInputs : CreateUser(Anonymous, data, "s1")

NameDestroy == \E user \in DOMAIN db.users : DestroyUser(user, user)

NextNames == NameCreate \/ NameDestroy

SpecNames == Init /\ [][NextNames]_vars

(***************************************************************************)
(* SpecPassword: password changes and field updates on existing Users.     *)
(***************************************************************************)
PasswordUsers == 1

PasswordUpdateInputs ==
    Merge({<<>>, ("email" :> "e2") @@ ("first_name" :> <<"A">>) @@ ("last_name" :> <<"B">>)},
    Merge(Opt("password", Passwords),
          Opt("old_password", Passwords)))

PasswordCreate ==
    /\ db.user_seq <= PasswordUsers
    /\ \E salt \in Salts :
        CreateUser(Anonymous, ("password" :> "p0") @@ ("email" :> "e1")
                              @@ ("first_name" :> <<"a">>) @@ ("last_name" :> <<"b">>), salt)

PasswordUpdate ==
    \E user \in DOMAIN db.users, method \in {"PUT", "PATCH"},
       data \in PasswordUpdateInputs, salt \in Salts :
        UpdateUser(user, user, method, data, salt)

NextPassword == PasswordCreate \/ PasswordUpdate

SpecPassword == Init /\ [][NextPassword]_vars

(***************************************************************************)
(* Requests handled concurrently, one per worker.  A step is one statement *)
(* against the Identity Store together with the local computation that     *)
(* leads to it; the steps of different workers interleave.                 *)
(***************************************************************************)
Working(pc, op, method, user, target, data, instance, username, counter) ==
    [pc |-> pc, op |-> op, method |-> method, user |-> user, target |-> target,
     data |-> data, instance |-> instance, username |-> username, counter |-> counter]

\* the worker answers its request and is free again
Finish(w, status, errors) ==
    /\ resp' = Response(workers[w].op, workers[w].method, workers[w].user,
                        workers[w].target, workers[w].data, status, errors)
    /\ workers' = [workers EXCEPT ![w] = Idle]

\* POST /users/ arrives: is_valid, then UserSerializer.create up to the
\* pre_save receiver's first assignment of username and counter
BeginCreate(w, data) ==
    /\ workers[w].pc = "idle"
    /\ LET valid == is_valid("POST", data)
           fields == Without(valid.returned, {"password"})
           instance == NewUser(fields)
       IN  IF valid.errors # {}
           THEN /\ resp' = Response("create", "POST", Anonymous, 0, data, 400, valid.errors)
                /\ UNCHANGED workers
           ELSE IF ~(DOMAIN fields \subseteq ModelFields)
           THEN /\ resp' = Response("create", "POST", Anonymous, 0, data, 500,
                                    {<<"exception", "TypeError">>})
                /\ UNCHANGED workers
           ELSE /\ workers' = [workers EXCEPT ![w] =
                       Working(IF instance.username = <<>> THEN "exists" ELSE "insert",
                               "create", "POST", Anonymous, 0, valid.returned, instance,
                               username_base(instance), 1)]
                /\ UNCHANGED resp
    /\ UNCHANGED db

\* one evaluation of the while condition of set_username, and the loop body
\* or the assignment after the loop
ExistsQuery(w) ==
    /\ workers[w].pc = "exists"
    /\ workers' = [workers EXCEPT ![w] =
          IF username_exists(db, workers[w].username)
          THEN [@ EXCEPT !.username = username_numbered(workers[w].instance,
                                                        workers[w].counter),
                         !.counter = @ + 1]
          ELSE [@ EXCEPT !.instance = [@ EXCEPT !.username = workers[w].username],
                         !.pc = "insert"]]
    /\ UNCHANGED <<db, resp>>

\* the INSERT of User.objects.create
InsertUser(w) ==
    /\ workers[w].pc = "insert"
    /\ LET wr == save_table(db, workers[w].instance)
       IN  IF wr.error # ""
           THEN /\ Finish(w, 500, {<<"exception", wr.error>>})
                /\ UNCHANGED db
           ELSE /\ db' = wr.db
                /\ workers' = [workers EXCEPT ![w] =
                       [@ EXCEPT !.instance = wr.instance,
                                 !.target = wr.instance.id,
                                 !.pc = "post_save"]]
                /\ UNCHANGED resp

\* the post_save receiver after the INSERT
PostSave(w) ==
    /\ workers[w].pc = "post_save"
    /\ LET post == create_user_profile(db, workers[w].instance, TRUE)
       IN  IF post.error # ""
           THEN /\ Finish(w, 500, {<<"exception", post.error>>})
                /\ UNCHANGED db
           ELSE /\ db' = post.db
                /\ workers' = [workers EXCEPT ![w] = [@ EXCEPT !.pc = "set_password"]]
                /\ UNCHANGED resp

\* user.set_password(password); user.save()
SetPasswordSave(w, salt) ==
    /\ workers[w].pc = "set_password"
    /\ LET done == save(db, [workers[w].instance EXCEPT
                               !.password = make_password(workers[w].data["password"], salt)])
       IN  /\ db' = done.db
           /\ IF done.error # ""
              THEN Finish(w, 500, {<<"exception", done.error>>})
              ELSE Finish(w, 201, {})

\* PUT, PATCH /users/{target}/ arrives: get_object (the row is read, the User
\* policy applied) and is_valid
BeginUpdate(w, user, target, method, data) ==
    /\ workers[w].pc = "idle"
    /\ method \in {"PUT", "PATCH"}
    /\ IF target \notin DOMAIN db.users
       THEN /\ resp' = Response("update", method, user, target, data, 404, {})
            /\ UNCHANGED workers
       ELSE IF ~IsUserOwnerOrGetAndPostOnly(method, user, target)
       THEN /\ resp' = Response("update", method, user, target, data, 403, {})
            /\ UNCHANGED workers
       ELSE LET valid == is_valid(method, data)
            IN  IF valid.errors # {}
                THEN /\ resp' = Response("update", method, user, target, data, 400,
                                         valid.errors)
                     /\ UNCHANGED workers
                ELSE /\ workers' = [workers EXCEPT ![w] =
                            Working("change_password", "update", method, user, target,
                                    valid.returned, Load(db, target), <<>>, 0)]
                     /\ UNCHANGED resp
    /\ UNCHANGED db

\* the try block of UserSerializer.update, on the instance read by get_object
ChangePassword(w, salt) ==
    /\ workers[w].pc = "change_password"
    /\ LET pw == change_password(db, workers[w].instance, workers[w].data, salt)
       IN  IF pw.error # ""
           THEN /\ Finish(w, 400, Info(pw.error))
                /\ db' = pw.db
           ELSE /\ db' = pw.db
                /\ workers' = [workers EXCEPT ![w] =
                       [@ EXCEPT !.instance = pw.instance, !.pc = "generic_update"]]
                /\ UNCHANGED resp

\* super().update(instance, validated_data)
GenericUpdate(w) ==
    /\ workers[w].pc = "generic_update"
    /\ LET rest == IF "password" \in DOMAIN workers[w].data
                   THEN Without(workers[w].data, {"password", "old_password"})
                   ELSE workers[w].data
           up == generic_update(db, workers[w].instance, rest)
       IN  /\ db' = up.db
           /\ IF up.error # ""
              THEN Finish(w, 500, {<<"exception", up.error>>})
              ELSE Finish(w, 200, {})

(***************************************************************************)
(* SpecCreateRace: concurrent Create requests with the same names.         *)
(***************************************************************************)
RaceUsers == 3

RaceCreateInputs ==
    {("password" :> "p0") @@ ("first_name" :> <<"a">>) @@ ("last_name" :> <<"b">>),
     ("password" :> "p0") @@ ("first_name" :> <<"A">>) @@ ("last_name" :> <<"b">>)}

\* rows inserted so far and about to be
RaceStarted ==
    (db.user_seq - 1) + Cardinality({w \in Workers : workers[w].pc \in {"exists", "insert"}})

RaceBeginCreate ==
    /\ RaceStarted < RaceUsers
    /\ \E w \in Workers, data \in RaceCreateInputs : BeginCreate(w, data)

RaceExistsQuery == \E w \in Workers : ExistsQuery(w)

RaceInsertUser == \E w \in Workers : InsertUser(w)

RacePostSave == \E w \in Workers : PostSave(w)

RaceSetPasswordSave == \E w \in Workers : SetPasswordSave(w, "s1")

NextCreateRace ==
    \/ RaceBeginCreate
    \/ RaceExistsQuery
    \/ RaceInsertUser
    \/ RacePostSave
    \/ RaceSetPasswordSave

SpecCreateRace == Init /\ [][NextCreateRace]_vars

(***************************************************************************)
(* SpecUpdateRace: concurrent Update requests on existing Users.           *)
(***************************************************************************)
UpdateRaceUsers == 1

UpdateRaceInputs == Merge(Opt("password", Passwords), Opt("old_password", Passwords))

UpdateRaceCreate ==
    /\ db.user_seq <= UpdateRaceUsers
    /\ \A w \in Workers : workers[w].pc = "idle"
    /\ CreateUser(Anonymous, "password" :> "p0", "s1")

UpdateRaceBegin ==
    \E w \in Workers, user \in DOMAIN db.users, data \in UpdateRaceInputs :
        BeginUpdate(w, user, user, "PATCH", data)

UpdateRaceChangePassword == \E w \in Workers : ChangePassword(w, "s1")

UpdateRaceGenericUpdate == \E w \in Workers : GenericUpdate(w)

NextUpdateRace ==
    \/ UpdateRaceCreate
    \/ UpdateRaceBegin
    \/ UpdateRaceChangePassword
    \/ UpdateRaceGenericUpdate

SpecUpdateRace == Init /\ [][NextUpdateRace]_vars

(***************************************************************************)
(* Properties                                                              *)
(***************************************************************************)

\* C1: at the single-object level the User policy allows a request if and
\* only if its method is GET, HEAD or OPTIONS, or the requester is
\* authenticated and is the target User; so PUT, PATCH and DELETE are denied
\* to an anonymous requester and to a requester other than the target.
UserPolicyDecision ==
    resp.op = "user_permission" =>
        /\ (resp.status = 200) <=>
              \/ resp.method \in {"GET", "HEAD", "OPTIONS"}
              \/ (resp.user # Anonymous /\ resp.user = resp.target)
        /\ resp.status \in {200, 403}
        /\ (resp.method \in {"PUT", "PATCH", "DELETE"}
            /\ (resp.user = Anonymous \/ resp.user # resp.target)) => resp.status = 403

UserPolicyDenied ==
    /\ resp.op = "user_permission"
    /\ resp.method = "PATCH"
    /\ resp.user # Anonymous
    /\ resp.user # resp.target
    /\ resp.status = 403

\* C2: at the single-object level the Profile policy allows every safe
\* method, and allows a non-safe method exactly to the authenticated
\* requester whose own Profile is the target Profile.
ProfilePolicyDecision ==
    resp.op = "profile_permission" =>
        /\ resp.status \in {200, 403}
        /\ resp.method \in {"GET", "HEAD", "OPTIONS"} => resp.status = 200
        /\ resp.method \notin {"GET", "HEAD", "OPTIONS"} =>
              ((resp.status = 200) <=>
                  (resp.user # Anonymous /\ db.profiles[resp.target].user = resp.user))

ProfilePolicyOwnerAllowed ==
    /\ resp.op = "profile_permission"
    /\ resp.method = "PATCH"
    /\ resp.user # Anonymous
    /\ db.profiles[resp.target].user = resp.user
    /\ Cardinality(DOMAIN db.profiles) > 1
    /\ resp.status = 200

\* C3: between requests every User has exactly one Profile and every Profile
\* belongs to an existing User; the Profile of a User just created has no
\* image.
OneProfilePerUser ==
    /\ \A u \in DOMAIN db.users :
          Cardinality({p \in DOMAIN db.profiles : db.profiles[p].user = u}) = 1
    /\ \A p \in DOMAIN db.profiles : db.profiles[p].user \in DOMAIN db.users
    /\ (resp.op = "create" /\ resp.status = 201) =>
          /\ resp.target \in DOMAIN db.users
          /\ \A p \in DOMAIN db.profiles :
                db.profiles[p].user = resp.target => db.profiles[p].image = NoImage

CreatedBesideProfileWithImage ==
    /\ resp.op = "create"
    /\ resp.status = 201
    /\ \E p \in DOMAIN db.profiles :
          db.profiles[p].user # resp.target /\ db.profiles[p].image # NoImage
    /\ \E p \in DOMAIN db.profiles :
          db.profiles[p].user = resp.target /\ db.profiles[p].image = NoImage

\* C4: a User created without a username gets lower(first_name + "_" +
\* last_name) when no other User has it, and otherwise that string followed
\* by "_N" for the smallest N >= 1 such that no other User has the result.
AssignedUsername ==
    (resp.op = "create" /\ resp.status = 201) =>
        LET first   == IF "first_name" \in DOMAIN resp.data
                       THEN resp.data["first_name"] ELSE <<>>
            last    == IF "last_name" \in DOMAIN resp.data
                       THEN resp.data["last_name"] ELSE <<>>
            others  == {db.users[u].username : u \in (DOMAIN db.users) \ {resp.target}}
            base    == Lower(first \o <<"_">> \o last)
            numbered(n) == base \o <<"_">> \o Str(n)
            assigned == db.users[resp.target].username
        IN  IF base \notin others
            THEN assigned = base
            ELSE \E n \in 1..(Cardinality(others) + 1) :
                    /\ assigned = numbered(n)
                    /\ numbered(n) \notin others
                    /\ \A m \in 1..(n - 1) : numbered(m) \in others

CreatedIntoNumberGap ==
    /\ resp.op = "create"
    /\ resp.status = 201
    /\ db.users[resp.target].username = <<"a", "_", "b", "_", "1">>
    /\ \E u \in DOMAIN db.users : db.users[u].username = <<"a", "_", "b">>
    /\ \E u \in DOMAIN db.users : db.users[u].username = <<"a", "_", "b", "_", "2">>
    /\ \A u \in DOMAIN db.users : u <= resp.target

\* C5: no two persisted Users have the same username, also while Create
\* requests with the same names interleave.
UsernamesUnique ==
    \A u, v \in DOMAIN db.users :
        u # v => db.users[u].username # db.users[v].username

CreateLostTheRace ==
    /\ resp.op = "create"
    /\ resp.status = 500
    /\ resp.errors = {<<"exception", "IntegrityError">>}
    /\ \E u \in DOMAIN db.users : db.users[u].username = <<"a", "_", "b">>

\* C6: an Update carrying a password and an old_password that does not verify
\* against the stored credential fails with {"info": "Old password is
\* incorrect."} and changes nothing in the store.
WrongOldPasswordChangesNothing ==
    [][ ( /\ resp'.op = "update"
          /\ resp'.status \notin {403, 404}
          /\ "password" \in DOMAIN resp'.data
          /\ "old_password" \in DOMAIN resp'.data
          /\ resp'.data["password"] # ""
          /\ resp'.data["old_password"] # ""
          /\ db.users[resp'.target].password
                # make_password(resp'.data["old_password"],
                                db.users[resp'.target].password.salt) )
        => ( /\ resp'.status = 400
             /\ resp'.errors = {<<"info", "Old password is incorrect.">>}
             /\ db' = db ) ]_vars

WrongOldPasswordRejected ==
    /\ resp.op = "update"
    /\ resp.status = 400
    /\ resp.errors = {<<"info", "Old password is incorrect.">>}
    /\ "email" \in DOMAIN resp.data
    /\ db.users[resp.target].email # resp.data["email"]
    /\ db.users[resp.target].first_name # resp.data["first_name"]
    /\ db.users[resp.target].last_name # resp.data["last_name"]

\* C7 as stated: after an Update that changed the password, the new password
\* verifies and the old password does not, for every pair of passwords.
NewVerifiesOldFails ==
    (resp.op = "update" /\ resp.status = 200 /\ "password" \in DOMAIN resp.data) =>
        /\ check_password(resp.data["password"], db.users[resp.target].password)
        /\ ~check_password(resp.data["old_password"], db.users[resp.target].password)

\* C7 amended: after an Update that changed the password the new password
\* verifies; the old password fails to verify when it differs from the new
\* one, and still verifies when the two are the same.
NewVerifiesOldFailsWhenDifferent ==
    (resp.op = "update" /\ resp.status = 200 /\ "password" \in DOMAIN resp.data) =>
        LET stored == db.users[resp.target].password
            new    == resp.data["password"]
            old    == resp.data["old_password"]
        IN  /\ stored = make_password(new, stored.salt)
            /\ stored.salt # ""
            /\ new # old => stored # make_password(old, stored.salt)
            /\ new = old => stored = make_password(old, stored.salt)

PasswordChanged ==
    /\ resp.op = "update"
    /\ resp.status = 200
    /\ "password" \in DOMAIN resp.data
    /\ resp.data["password"] = "p1"
    /\ resp.data["old_password"] = "p0"

\* C8 as stated: validate under POST fails with {"info": "Please provide a
\* password."} when password is absent or empty and succeeds when a
\* non-empty password is present.
PostNeedsNonEmptyPassword ==
    (resp.op = "validate" /\ resp.method = "POST") =>
        /\ ("password" \notin DOMAIN resp.data \/ resp.data["password"] = "") =>
              (resp.status = 400 /\ resp.errors = {<<"info", "Please provide a password.">>})
        /\ ("password" \in DOMAIN resp.data /\ resp.data["password"] # "") =>
              resp.status = 200

\* C8 amended: validate under POST fails with {"info": "Please provide a
\* password."} exactly when password is absent and returns the data whenever
\* password is present, empty or not; an empty password is rejected by the
\* field validation of is_valid, with "This field may not be blank." under
\* the key password and not with the info error.
PostNeedsPresentPassword ==
    /\ (resp.op = "validate" /\ resp.method = "POST") =>
          IF "password" \in DOMAIN resp.data
          THEN resp.status = 200 /\ resp.errors = {} /\ resp.returned = resp.data
          ELSE resp.status = 400 /\ resp.errors = {<<"info", "Please provide a password.">>}
    /\ (resp.op = "is_valid" /\ resp.method = "POST" /\ "password" \in DOMAIN resp.data
        /\ resp.data["password"] = "") =>
          /\ resp.status = 400
          /\ <<"password", "This field may not be blank.">> \in resp.errors
          /\ <<"info", "Please provide a password.">> \notin resp.errors

PostEmptyPasswordValidated ==
    /\ resp.op = "validate"
    /\ resp.method = "POST"
    /\ "password" \in DOMAIN resp.data
    /\ resp.data["password"] = ""
    /\ resp.status = 200

\* C9: validate under PUT or PATCH fails with {"info": "Please provide the
\* old password."} exactly when password is present and old_password is
\* absent; otherwise, and under every method other than POST, PUT and PATCH,
\* it returns the data unchanged.
UpdateNeedsOldPassword ==
    resp.op = "validate" =>
        /\ resp.method \in {"PUT", "PATCH"} =>
              IF "password" \in DOMAIN resp.data /\ "old_password" \notin DOMAIN resp.data
              THEN /\ resp.status = 400
                   /\ resp.errors = {<<"info", "Please provide the old password.">>}
              ELSE resp.status = 200 /\ resp.errors = {} /\ resp.returned = resp.data
        /\ resp.method \notin {"POST", "PUT", "PATCH"} =>
              (resp.status = 200 /\ resp.errors = {} /\ resp.returned = resp.data)

PatchWithoutOldPassword ==
    /\ resp.op = "validate"
    /\ resp.method = "PATCH"
    /\ "password" \in DOMAIN resp.data
    /\ "old_password" \notin DOMAIN resp.data
    /\ resp.status = 400

\* C10: whenever a request writes a new credential, the old_password it
\* supplied verifies against the credential stored at the moment of the write.
CredentialWriteNotStale ==
    [][ \A w \in Workers :
          ( /\ workers[w].pc = "change_password"
            /\ workers'[w].pc = "generic_update"
            /\ "password" \in DOMAIN workers[w].data )
          => check_password(workers[w].data["old_password"],
                            db.users[workers[w].target].password) ]_vars

====
